---- MODULE Spec2Model ----
(***************************************************************************)
(* LayoutLab placement engine (src/src/layoutlab/placer.py).               *)
(*                                                                         *)
(* Lengths are fixed-point integers in tenths of a millimetre, so every    *)
(* sheet size, margin, spacing and half-extent of the source is exact.     *)
(* The process-wide generator of Python's random module is the variable    *)
(* rng: random.seed sets it from the seed alone and every draw advances it *)
(* by one deterministic step and reads the new state as a fraction of      *)
(* RandMax.                                                                *)
(***************************************************************************)
EXTENDS Integers, Sequences, FiniteSets, TLC

VARIABLES
    symbols,         \* SymbolPlacer.symbols, in dict insertion order
    rng,             \* state of the module-level random generator
    pc,              \* "idle" | "loop" | "done" | "raised"
    args,            \* arguments of the current / last call
    sheet_width,     \* locals of place_symbols_randomly
    sheet_height,
    placed_symbols,
    attempts,
    result,          \* the list handed back by return
    error,           \* the exception that left the call, or "none"
    warned,          \* the shortfall warning was printed
    kept,            \* an earlier call's arguments and result, held by the caller
    probe,           \* operands and outcome of a direct check_collision call
    threads,         \* locals of the placement runs of concurrent workers
    annotations,     \* outcome of generate_annotations_json on the last result
    page,            \* arguments and outcome of a generate_page call
    gen,             \* argument and outcome of a direct generate_params call
    agent            \* a LayoutLabAgent, its last drawing and an earlier one

vars == <<symbols, rng, pc, args, sheet_width, sheet_height, placed_symbols,
          attempts, result, error, warned, kept, probe, threads,
          annotations, page, gen, agent>>

placerVars == <<symbols, rng, pc, args, sheet_width, sheet_height,
                placed_symbols, attempts, result, error, warned, kept>>

None == "none"

----------------------------------------------------------------------------
(* Bounds of the model *)

MaxCount == 3      \* largest requested symbol_count
MaxSeed == 3       \* seeds 0..MaxSeed
MaxProbe == 11     \* direct check_collision calls: offsets up to MaxProbe mm
MaxWorkerCount == 1  \* largest symbol_count of a concurrent worker
MaxWorkerSeed == 1   \* seeds 0..MaxWorkerSeed of a concurrent worker
MaxFloatOffset == 24 \* distance of a box edge below 2^FloatBits, in tenths
MaxDrawings == 3     \* generate_drawing calls of one agent

----------------------------------------------------------------------------
(* Units and constants of the source *)

margin == 100              \* margin = 10.0
MinSpacing == 20           \* min_spacing default 2.0
AttemptFactor == 10        \* max_attempts = symbol_count * 10

SIZES == [A4 |-> <<2100, 2970>>, A3 |-> <<2970, 4200>>,
          USLetter |-> <<2159, 2794>>]

SheetKey(sheet_size) ==
    CASE sheet_size = "A4" -> "A4"
      [] sheet_size = "A3" -> "A3"
      [] sheet_size = "US-Letter" -> "USLetter"
      [] OTHER -> None

SupportedSheets == {"A4", "A3", "US-Letter"}

UnsupportedSheetError == "ValueError: Unsupported sheet size"
EmptyChoiceError == "IndexError: Cannot choose from an empty sequence"

\* get_size falling back to A4 for an unknown name, as generate_pdf does
get_size_default(sheet_size) ==
    IF SheetKey(sheet_size) = None
    THEN [raised |-> FALSE, error |-> None, size |-> SIZES["A4"]]
    ELSE [raised |-> FALSE, error |-> None, size |-> SIZES[SheetKey(sheet_size)]]

\* SheetDimensions.get_size: the size, or the raised error
get_size(sheet_size) ==
    IF SheetKey(sheet_size) = None
    THEN [raised |-> TRUE, error |-> UnsupportedSheetError, size |-> <<0, 0>>]
    ELSE [raised |-> FALSE, error |-> None, size |-> SIZES[SheetKey(sheet_size)]]

----------------------------------------------------------------------------
(* Symbols and catalogs *)

\* params is the parameter schema of the symbol: {} for the mock symbols
\* (line 179) and for a manifest entry without a "params" key (line 157)
Symbol(name, w, h) ==
    [name |-> name, width_mm |-> w, height_mm |-> h, params |-> << >>]

\* _create_mock_symbols: the catalog used when no manifest file exists
MockSymbols ==
    << Symbol("gdt_flatness", 80, 40),
       Symbol("gdt_parallelism", 80, 40),
       Symbol("surface_finish_triangle", 30, 30),
       Symbol("thread_callout_m6", 120, 30),
       Symbol("diameter_symbol", 40, 40),
       Symbol("radius_symbol", 40, 0),
       Symbol("weld_symbol", 60, 60) >>

\* load_symbols_manifest: catalogs a manifest file can produce
Manifests ==
    { << >>,
      << Symbol("A", 80, 80) >>,
      << Symbol("Diameter_Table", 900, 1300) >>,
      << Symbol("title_block", 1500, 2000), Symbol("A", 80, 80) >>,
      << Symbol("border_frame", 2000, 400) >> }

Catalogs == Manifests \cup {MockSymbols}

----------------------------------------------------------------------------
(* The random module *)

RandMax == 32

\* random.seed(seed)
SeedState(seed) == (seed * 11 + 5) % RandMax

\* one step of the generator; the new state is the value drawn
RngStep(s) == (s * 5 + 7) % RandMax

\* random.uniform(a, b) = a + (b - a) * random()
uniform(a, b, r) == a + ((b - a) * r) \div RandMax

\* random.choice(seq)
choice(seq, r) == seq[((r * Len(seq)) \div RandMax) + 1]

----------------------------------------------------------------------------
(* CollisionDetector *)

\* Binary floating point.  Lengths are Python floats; the model keeps them
\* in tenths of a millimetre with a significand of FloatBits bits, so every
\* tenth below 2^FloatBits (819.2 mm, beyond every sheet) is exact and the
\* result of + or - above it is rounded to the nearest representable value,
\* ties to the even significand, as IEEE 754 does at 53 bits.
FloatBits == 13

RECURSIVE Pow2(_)
Pow2(n) == IF n = 0 THEN 1 ELSE 2 * Pow2(n - 1)

FloatLimit == Pow2(FloatBits)

\* the spacing of the representable values around the magnitude m
RECURSIVE Ulp(_)
Ulp(m) == IF m < FloatLimit THEN 1 ELSE 2 * Ulp(m \div 2)

\* the representable value nearest to v
fl(v) ==
    IF v < FloatLimit /\ -v < FloatLimit
    THEN v
    ELSE LET m == IF v < 0 THEN -v ELSE v
             u == Ulp(m)
             q == m \div u
             r == m % u
             n == IF 2 * r < u THEN q
                  ELSE IF 2 * r > u THEN q + 1
                  ELSE IF q % 2 = 0 THEN q ELSE q + 1
         IN  IF v < 0 THEN -(n * u) ELSE n * u

\* a box that follows the rotation: the extents change places at 90 and 270
get_bounding_box_rotated(p) ==
    LET turned == p.rotation \in {90, 270}
        half_width == (IF turned THEN p.symbol.height_mm
                                 ELSE p.symbol.width_mm) \div 2
        half_height == (IF turned THEN p.symbol.width_mm
                                  ELSE p.symbol.height_mm) \div 2
    IN  [x_min |-> p.x - half_width, y_min |-> p.y - half_height,
         x_max |-> p.x + half_width, y_max |-> p.y + half_height]

get_bounding_box(p) ==
    LET half_width == p.symbol.width_mm \div 2
        half_height == p.symbol.height_mm \div 2
    IN  [x_min |-> fl(p.x - half_width), y_min |-> fl(p.y - half_height),
         x_max |-> fl(p.x + half_width), y_max |-> fl(p.y + half_height)]

\* check_collision with non-strict separation tests
check_collision_nonstrict(symbol1, symbol2, min_spacing) ==
    LET bbox1 == get_bounding_box(symbol1)
        bbox2 == get_bounding_box(symbol2)
        x1_min == bbox1.x_min - min_spacing
        y1_min == bbox1.y_min - min_spacing
        x1_max == bbox1.x_max + min_spacing
        y1_max == bbox1.y_max + min_spacing
    IN  ~ (\/ x1_max <= bbox2.x_min
           \/ bbox2.x_max <= x1_min
           \/ y1_max <= bbox2.y_min
           \/ bbox2.y_max <= y1_min)

check_collision(symbol1, symbol2, min_spacing) ==
    LET bbox1 == get_bounding_box(symbol1)
        bbox2 == get_bounding_box(symbol2)
        x1_min == fl(bbox1.x_min - min_spacing)
        y1_min == fl(bbox1.y_min - min_spacing)
        x1_max == fl(bbox1.x_max + min_spacing)
        y1_max == fl(bbox1.y_max + min_spacing)
    IN  ~ (\/ x1_max < bbox2.x_min
           \/ bbox2.x_max < x1_min
           \/ y1_max < bbox2.y_min
           \/ bbox2.y_max < y1_min)

----------------------------------------------------------------------------
(* SymbolParameterGenerator *)

\* the characters of a str, for the substring test of generate_params
Chars(name) ==
    CASE name = "gdt_flatness" ->
           <<"g", "d", "t", "_", "f", "l", "a", "t", "n", "e", "s", "s">>
      [] name = "gdt_parallelism" ->
           <<"g", "d", "t", "_", "p", "a", "r", "a", "l", "l", "e", "l", "i", "s", "m">>
      [] name = "surface_finish_triangle" ->
           <<"s", "u", "r", "f", "a", "c", "e", "_", "f", "i", "n", "i", "s", "h", "_", "t", "r", "i", "a", "n", "g", "l", "e">>
      [] name = "thread_callout_m6" ->
           <<"t", "h", "r", "e", "a", "d", "_", "c", "a", "l", "l", "o", "u", "t", "_", "m", "6">>
      [] name = "diameter_symbol" ->
           <<"d", "i", "a", "m", "e", "t", "e", "r", "_", "s", "y", "m", "b", "o", "l">>
      [] name = "radius_symbol" ->
           <<"r", "a", "d", "i", "u", "s", "_", "s", "y", "m", "b", "o", "l">>
      [] name = "weld_symbol" ->
           <<"w", "e", "l", "d", "_", "s", "y", "m", "b", "o", "l">>
      [] name = "A" ->
           <<"A">>
      [] name = "Diameter_Table" ->
           <<"D", "i", "a", "m", "e", "t", "e", "r", "_", "T", "a", "b", "l", "e">>
      [] name = "title_block" ->
           <<"t", "i", "t", "l", "e", "_", "b", "l", "o", "c", "k">>
      [] name = "border_frame" ->
           <<"b", "o", "r", "d", "e", "r", "_", "f", "r", "a", "m", "e">>
      [] name = "surface_finish" ->
           <<"s", "u", "r", "f", "a", "c", "e", "_", "f", "i", "n", "i", "s", "h">>
      [] name = "thread_callout" ->
           <<"t", "h", "r", "e", "a", "d", "_", "c", "a", "l", "l", "o", "u", "t">>
      [] name = "diameter" ->
           <<"d", "i", "a", "m", "e", "t", "e", "r">>
      [] name = "test_symbol1" ->
           <<"t", "e", "s", "t", "_", "s", "y", "m", "b", "o", "l", "1">>
      [] name = "diameter_surface_finish" ->
           <<"d", "i", "a", "m", "e", "t", "e", "r", "_", "s", "u", "r", "f", "a", "c", "e", "_", "f", "i", "n", "i", "s", "h">>
      [] name = "Thread_Callout_M8" ->
           <<"T", "h", "r", "e", "a", "d", "_", "C", "a", "l", "l", "o", "u", "t", "_", "M", "8">>
      [] name = "" ->
           << >>
      [] name = "test_symbol2" ->
           <<"t", "e", "s", "t", "_", "s", "y", "m", "b", "o", "l", "2">>

\* str.lower, on the upper-case letters that occur in symbol names
LowerChar(c) ==
    CASE c = "A" -> "a"
      [] c = "D" -> "d"
      [] c = "T" -> "t"
      [] c = "C" -> "c"
      [] c = "M" -> "m"
      [] OTHER -> c

lower(s) == [i \in 1..Len(s) |-> LowerChar(s[i])]

\* the "in" operator on two str
IsSubstring(t, s) ==
    \E i \in 0..(Len(s) - Len(t)) : SubSeq(s, i + 1, i + Len(t)) = t

\* PARAMETER_TEMPLATES, keys in dict order
TemplateKeys == <<"gdt_flatness", "surface_finish", "thread_callout", "diameter">>

\* the generators of one template, in dict order.  tolerance is in 1/1000,
\* roughness and value in 1/10, pitch in 1/100.
Template(key) ==
    CASE key = "gdt_flatness" ->
           << [key |-> "tolerance", kind |-> "uniform", lo |-> 10, hi |-> 500],
              [key |-> "datum", kind |-> "choice",
               values |-> <<"A", "B", "C", "-">>] >>
      [] key = "surface_finish" ->
           << [key |-> "roughness", kind |-> "choice",
               values |-> <<8, 16, 32, 63, 125>>],
              [key |-> "process", kind |-> "choice",
               values |-> <<"machined", "cast", "forged">>] >>
      [] key = "thread_callout" ->
           << [key |-> "size", kind |-> "choice",
               values |-> <<"M6", "M8", "M10", "M12", "1/4-20", "3/8-16">>],
              [key |-> "pitch", kind |-> "choice",
               values |-> <<100, 125, 150, 200>>],
              [key |-> "class", kind |-> "choice",
               values |-> <<"6H", "6g", "4H6H">>] >>
      [] key = "diameter" ->
           << [key |-> "value", kind |-> "uniform", lo |-> 50, hi |-> 500],
              [key |-> "tolerance", kind |-> "plusminus", lo |-> 10, hi |-> 100] >>

\* one generator() call: the value and the generator state it leaves
Generate(g, s) ==
    LET r1 == RngStep(s)
        r2 == RngStep(r1)
    IN  CASE g.kind = "uniform" ->
               [value |-> uniform(g.lo, g.hi, r1), rng |-> r1]
          [] g.kind = "choice" ->
               [value |-> choice(g.values, r1), rng |-> r1]
          [] g.kind = "plusminus" ->
               [value |-> <<"+", uniform(g.lo, g.hi, r1),
                            "/-", uniform(g.lo, g.hi, r2)>>,
                rng |-> r2]

\* {key: generator() for key, generator in template.items()}
RECURSIVE GenerateAll(_, _, _)
GenerateAll(template, s, acc) ==
    IF template = << >>
    THEN [params |-> acc, rng |-> s]
    ELSE LET g == Generate(Head(template), s)
         IN  GenerateAll(Tail(template), g.rng,
                         Append(acc, <<Head(template).key, g.value>>))

\* the last template key, from index i on, contained in the name; 0 if none
MatchTemplateLast(symbol_name, i) ==
    LET M == {k \in i..Len(TemplateKeys) :
                IsSubstring(Chars(TemplateKeys[k]), lower(Chars(symbol_name)))}
    IN  IF M = {} THEN 0 ELSE CHOOSE k \in M : \A j \in M : j <= k

\* the first template key, from index i on, contained in the name; 0 if none
RECURSIVE MatchTemplate(_, _)
MatchTemplate(symbol_name, i) ==
    IF i > Len(TemplateKeys) THEN 0
    ELSE IF IsSubstring(Chars(TemplateKeys[i]), lower(Chars(symbol_name)))
         THEN i
         ELSE MatchTemplate(symbol_name, i + 1)

\* the names of the symbols of every catalog
SymbolNames ==
    {c[i].name : <<c, i>> \in {<<c, i>> \in Catalogs \X (1..7) : i <= Len(c)}}

\* names handed to generate_params directly
DirectNames == {"diameter_surface_finish", "Thread_Callout_M8", "",
                "weld_symbol", "gdt_flatness"}

\* the outcome of the matching loop of generate_params, per symbol name
MatchedTemplate ==
    [name \in SymbolNames \cup DirectNames |-> MatchTemplate(name, 1)]

generate_params(symbol_name, s) ==
    LET i == MatchedTemplate[symbol_name]
    IN  IF i = 0
        THEN [params |-> << >>, rng |-> s]
        ELSE GenerateAll(Template(TemplateKeys[i]), s, << >>)

----------------------------------------------------------------------------
(* SymbolPlacer.place_symbols_randomly *)

PlacedSymbol(symbol, x, y, rotation, instance_params) ==
    [symbol |-> symbol, x |-> x, y |-> y, rotation |-> rotation,
     instance_params |-> instance_params]

\* a rotation list with the diagonal steps added
RotationsWithDiagonals == <<0, 45, 90, 135, 180, 225, 270, 315>>

Rotations == <<0, 90, 180, 270>>

\* the call without random.seed(seed)
ReseedMissing(seed, old) == old

\* random.seed(seed) at the head of the call: the state it leaves
Reseed(seed, old) == SeedState(seed)

\* the while condition with len(placed_symbols) <= symbol_count
LoopConditionInclusive(n_placed, symbol_count, n_attempts) ==
    /\ n_placed <= symbol_count
    /\ n_attempts < symbol_count * AttemptFactor

\* the while condition tested after the body (do-while)
LoopConditionDoWhile(n_placed, symbol_count, n_attempts) ==
    \/ n_attempts = 0
    \/ /\ n_placed < symbol_count
       /\ n_attempts < symbol_count * AttemptFactor

\* the while condition with attempts <= max_attempts
LoopConditionOffByOne(n_placed, symbol_count, n_attempts) ==
    /\ n_placed < symbol_count
    /\ n_attempts <= symbol_count * AttemptFactor

\* the while condition
LoopCondition(n_placed, symbol_count, n_attempts) ==
    /\ n_placed < symbol_count
    /\ n_attempts < symbol_count * AttemptFactor

\* generate_annotations_json (lines 332-356) with ordinals counted from 1
generate_annotations_json_from1(placed) ==
    [placed_symbols |-> placed,
     annotations |->
        [k \in 1..Len(placed) |->
            [id |-> k,
             symbol_name |-> placed[k].symbol.name,
             position |-> [x |-> placed[k].x, y |-> placed[k].y],
             rotation |-> placed[k].rotation,
             bounding_box |-> get_bounding_box(placed[k]),
             parameters |-> placed[k].instance_params]]]

\* generate_annotations_json (lines 332-356): the argument list as the call
\* leaves it, and the records returned; enumerate counts from 0
generate_annotations_json(placed) ==
    [placed_symbols |-> placed,
     annotations |->
        [k \in 1..Len(placed) |->
            [id |-> k - 1,
             symbol_name |-> placed[k].symbol.name,
             position |-> [x |-> placed[k].x, y |-> placed[k].y],
             rotation |-> placed[k].rotation,
             bounding_box |-> get_bounding_box(placed[k]),
             parameters |-> placed[k].instance_params]]]

\* the iteration with the position drawn over the whole safe area, the
\* half-extents of the symbol left out
CandidateIgnoringExtent(syms, s, width, height) ==
    LET r1 == RngStep(s)
        symbol == choice(syms, r1)
        r2 == RngStep(r1)
        x == uniform(margin, width - margin, r2)
        r3 == RngStep(r2)
        y == uniform(margin, height - margin, r3)
        r4 == RngStep(r3)
        rotation == choice(Rotations, r4)
        gp == generate_params(symbol.name, r4)
    IN  [placed_symbol |-> PlacedSymbol(symbol, x, y, rotation, gp.params),
         rng |-> gp.rng]

\* the draws of one iteration, in source order: symbol, x, y, rotation,
\* instance parameters; the candidate and the generator state left behind
Candidate(syms, s, width, height) ==
    LET r1 == RngStep(s)
        symbol == choice(syms, r1)
        r2 == RngStep(r1)
        x == uniform(margin + symbol.width_mm \div 2,
                     (width - margin) - symbol.width_mm \div 2, r2)
        r3 == RngStep(r2)
        y == uniform(margin + symbol.height_mm \div 2,
                     (height - margin) - symbol.height_mm \div 2, r3)
        r4 == RngStep(r3)
        rotation == choice(Rotations, r4)
        gp == generate_params(symbol.name, r4)
    IN  [placed_symbol |-> PlacedSymbol(symbol, x, y, rotation, gp.params),
         rng |-> gp.rng]

\* Candidate, tabulated over the non-empty catalogs, the generator states
\* and the sheet sizes
CandidateOf ==
    [syms \in Catalogs \ {<< >>}, s \in 0..(RandMax - 1),
     size \in {SIZES[k] : k \in DOMAIN SIZES} |->
        Candidate(syms, s, size[1], size[2])]

\* the collision loop looking at the last accepted symbol only
CollisionFoundLastOnly(candidate, placed) ==
    /\ placed # << >>
    /\ check_collision(candidate, placed[Len(placed)], MinSpacing)

\* the for loop calling check_collision with no spacing
CollisionFoundNoSpacing(candidate, placed) ==
    \E i \in 1..Len(placed) : check_collision(candidate, placed[i], 0)

\* the collision loop starting at the second accepted symbol
CollisionFoundSkipFirst(candidate, placed) ==
    \E i \in 2..Len(placed) : check_collision(candidate, placed[i], MinSpacing)

\* the for loop over placed_symbols that sets collision_found
CollisionFound(candidate, placed) ==
    \E i \in 1..Len(placed) : check_collision(candidate, placed[i], MinSpacing)

NoArgs == [sheet_size |-> "A4", symbol_count |-> 0, seed |-> 0]
NoKept == [valid |-> FALSE, args |-> NoArgs, result |-> << >>]

\* the symbols of tests/test_overlap.py, TestCollisionDetection.setUp
TestSymbols == {Symbol("test_symbol1", 100, 80), Symbol("test_symbol2", 60, 40)}

NoProbe == [called |-> FALSE,
            a |-> PlacedSymbol(Symbol("test_symbol1", 100, 80), 100, 100, 0, << >>),
            b |-> PlacedSymbol(Symbol("test_symbol1", 100, 80), 100, 100, 0, << >>),
            min_spacing |-> 0, result |-> FALSE,
            swapped_called |-> FALSE, swapped |-> FALSE,
            boxed |-> FALSE,
            bbox |-> [x_min |-> 0, y_min |-> 0, x_max |-> 0, y_max |-> 0]]

\* two workers that call the placer of one process
Threads == {1, 2}

NoCandidate == PlacedSymbol(Symbol("A", 80, 80), 0, 0, 0, << >>)

NoAnnotations == [called |-> FALSE, input |-> << >>, records |-> << >>]

NoPageArgs == [sheet_size |-> "A3", symbol_count |-> 0, seed |-> 0,
               base_drawing |-> None]

NoPage == [pc |-> "idle", args |-> NoPageArgs, error |-> None,
           pdf_bytes |-> FALSE, annotations |-> << >>]

NoGen == [called |-> FALSE, symbol_name |-> "", rng |-> 0, params |-> << >>]

\* the page ids the command-line generator forms (generate.py:127)
PageIds == {"page_0001", "page_0002"}

NoDrawing == [raised |-> FALSE, error |-> None, symbols |-> << >>,
              symbol_count |-> 0, annotations |-> << >>]

NoAgent == [sheet_size |-> "A4",
            hash |-> [p \in PageIds |-> 0],
            calls |-> 0,
            page_id |-> None,
            drawing |-> NoDrawing,
            kept |-> [valid |-> FALSE, page_id |-> None,
                      drawing |-> NoDrawing]]

NoThread == [pc |-> "idle", args |-> NoArgs, sheet_width |-> 0,
             sheet_height |-> 0, placed_symbols |-> << >>, attempts |-> 0,
             result |-> << >>, error |-> None, stage |-> "symbol",
             candidate |-> NoCandidate, k |-> 0]

NoThreads == [t \in Threads |-> NoThread]

SheetNames == SupportedSheets \cup {"B5"}
Counts == (-1)..MaxCount
Seeds == 0..MaxSeed

Init ==
    /\ symbols \in Catalogs
    /\ rng = 0
    /\ pc = "idle"
    /\ args = NoArgs
    /\ sheet_width = 0
    /\ sheet_height = 0
    /\ placed_symbols = << >>
    /\ attempts = 0
    /\ result = << >>
    /\ error = None
    /\ warned = FALSE
    /\ kept = NoKept
    /\ probe = NoProbe
    /\ threads = NoThreads
    /\ annotations = NoAnnotations
    /\ page = NoPage
    /\ gen = NoGen
    /\ agent = NoAgent

\* entry of place_symbols_randomly up to the loop head (lines 189-204).
\* The caller may hold on to the list the previous call returned.
Call(sheet_size, symbol_count, seed, keep) ==
    /\ pc \in {"idle", "done", "raised"}
    /\ keep => (pc = "done" /\ ~kept.valid)
    /\ kept' = IF keep THEN [valid |-> TRUE, args |-> args, result |-> result]
                       ELSE kept
    /\ args' = [sheet_size |-> sheet_size, symbol_count |-> symbol_count,
                seed |-> seed]
    /\ rng' = Reseed(seed, rng)
    /\ result' = << >>
    /\ warned' = FALSE
    /\ placed_symbols' = << >>
    /\ attempts' = 0
    /\ LET size == get_size(sheet_size)
       IN  IF size.raised
           THEN /\ pc' = "raised"
                /\ error' = size.error
                /\ sheet_width' = 0
                /\ sheet_height' = 0
           ELSE /\ pc' = "loop"
                /\ error' = None
                /\ sheet_width' = size.size[1]
                /\ sheet_height' = size.size[2]
    /\ annotations' = NoAnnotations
    /\ UNCHANGED <<symbols, probe, threads, page, gen, agent>>

\* one iteration that puts an accepted candidate at the head of the list
IteratePrepending ==
    /\ pc = "loop"
    /\ LoopCondition(Len(placed_symbols), args.symbol_count, attempts)
    /\ attempts' = attempts + 1
    /\ IF symbols = << >>
       THEN /\ pc' = "raised"
            /\ error' = EmptyChoiceError
            /\ UNCHANGED <<rng, placed_symbols>>
       ELSE LET c == CandidateOf[symbols, rng, <<sheet_width, sheet_height>>]
            IN  /\ rng' = c.rng
                /\ placed_symbols' =
                      IF CollisionFound(c.placed_symbol, placed_symbols)
                      THEN placed_symbols
                      ELSE << c.placed_symbol >> \o placed_symbols
                /\ UNCHANGED <<pc, error>>
    /\ UNCHANGED <<symbols, args, sheet_width, sheet_height, result, warned,
                   kept, probe, threads, annotations, page, gen, agent>>

\* one iteration in which the instance parameters are generated only for a
\* candidate that passed the collision test
IterateParamsAfterTest ==
    /\ pc = "loop"
    /\ LoopCondition(Len(placed_symbols), args.symbol_count, attempts)
    /\ attempts' = attempts + 1
    /\ IF symbols = << >>
       THEN /\ pc' = "raised"
            /\ error' = EmptyChoiceError
            /\ UNCHANGED <<rng, placed_symbols>>
       ELSE LET c == CandidateOf[symbols, rng, <<sheet_width, sheet_height>>]
                found == CollisionFound(c.placed_symbol, placed_symbols)
            IN  /\ rng' = IF found
                          THEN RngStep(RngStep(RngStep(RngStep(rng))))
                          ELSE c.rng
                /\ placed_symbols' =
                      IF found
                      THEN placed_symbols
                      ELSE Append(placed_symbols, c.placed_symbol)
                /\ UNCHANGED <<pc, error>>
    /\ UNCHANGED <<symbols, args, sheet_width, sheet_height, result, warned,
                   kept, probe, threads, annotations, page, gen, agent>>

\* one iteration of the while loop (lines 206-245)
Iterate ==
    /\ pc = "loop"
    /\ LoopCondition(Len(placed_symbols), args.symbol_count, attempts)
    /\ attempts' = attempts + 1
    /\ IF symbols = << >>
       THEN \* random.choice([]) raises
            /\ pc' = "raised"
            /\ error' = EmptyChoiceError
            /\ UNCHANGED <<rng, placed_symbols>>
       ELSE LET c == CandidateOf[symbols, rng, <<sheet_width, sheet_height>>]
            IN  /\ rng' = c.rng
                /\ placed_symbols' =
                      IF CollisionFound(c.placed_symbol, placed_symbols)
                      THEN placed_symbols
                      ELSE Append(placed_symbols, c.placed_symbol)
                /\ UNCHANGED <<pc, error>>
    /\ UNCHANGED <<symbols, args, sheet_width, sheet_height, result, warned,
                   kept, probe, threads, annotations, page, gen, agent>>

\* the return handing back the accepted symbols in reverse order
ReturnReversed ==
    /\ pc = "loop"
    /\ ~LoopCondition(Len(placed_symbols), args.symbol_count, attempts)
    /\ warned' = (Len(placed_symbols) < args.symbol_count)
    /\ result' = [i \in 1..Len(placed_symbols) |->
                     placed_symbols[Len(placed_symbols) + 1 - i]]
    /\ pc' = "done"
    /\ UNCHANGED <<symbols, rng, args, sheet_width, sheet_height,
                   placed_symbols, attempts, error, kept, probe, threads,
                   annotations, page, gen, agent>>

\* loop exit, the warning and the return (lines 247-252)
Return ==
    /\ pc = "loop"
    /\ ~LoopCondition(Len(placed_symbols), args.symbol_count, attempts)
    /\ warned' = (Len(placed_symbols) < args.symbol_count)
    /\ result' = placed_symbols
    /\ pc' = "done"
    /\ UNCHANGED <<symbols, rng, args, sheet_width, sheet_height,
                   placed_symbols, attempts, error, kept, probe, threads,
                   annotations, page, gen, agent>>

\* the caller hands the list it got back to generate_annotations_json
\* (lines 332-356); the list is passed by reference
Annotate ==
    /\ pc = "done"
    /\ ~annotations.called
    /\ LET out == generate_annotations_json(result)
       IN  /\ result' = out.placed_symbols
           /\ annotations' = [called |-> TRUE, input |-> result,
                              records |-> out.annotations]
    /\ UNCHANGED <<symbols, rng, pc, args, sheet_width, sheet_height,
                   placed_symbols, attempts, error, warned, kept, probe,
                   threads, page, gen, agent>>

Next ==
    \/ \E sheet_size \in SheetNames, symbol_count \in Counts, seed \in Seeds,
          keep \in BOOLEAN :
          Call(sheet_size, symbol_count, seed, keep)
    \/ Iterate
    \/ Return
    \/ Annotate

Spec == Init /\ [][Next]_vars

\* the interpreter keeps executing a call that has started
LiveSpec == Spec /\ WF_vars(Iterate) /\ WF_vars(Return)

----------------------------------------------------------------------------
(* Direct calls of the static method CollisionDetector.check_collision *)

ProbeOffsets == {k * 10 : k \in (-MaxProbe)..MaxProbe}
ProbeSpacings == {0, 10, 20}

InitCD ==
    /\ symbols = MockSymbols
    /\ rng = 0
    /\ pc = "idle"
    /\ args = NoArgs
    /\ sheet_width = 0
    /\ sheet_height = 0
    /\ placed_symbols = << >>
    /\ attempts = 0
    /\ result = << >>
    /\ error = None
    /\ warned = FALSE
    /\ kept = NoKept
    /\ \E sa \in TestSymbols, sb \in TestSymbols, dx \in ProbeOffsets,
          dy \in ProbeOffsets, i \in DOMAIN Rotations,
          min_spacing \in ProbeSpacings :
          probe = [NoProbe EXCEPT
                   !.a = PlacedSymbol(sa, 100, 100, 0, << >>),
                   !.b = PlacedSymbol(sb, 100 + dx, 100 + dy, Rotations[i],
                                      << >>),
                   !.min_spacing = min_spacing]
    /\ threads = NoThreads
    /\ annotations = NoAnnotations
    /\ page = NoPage
    /\ gen = NoGen
    /\ agent = NoAgent

\* the call check_collision(a, b, min_spacing) on the operands drawn
CheckCollision ==
    /\ ~probe.called
    /\ probe' = [probe EXCEPT !.called = TRUE,
                              !.result = check_collision(probe.a, probe.b,
                                                         probe.min_spacing)]
    /\ UNCHANGED <<placerVars, threads, annotations, page, gen, agent>>

\* the call get_bounding_box(b) on the second operand drawn
GetBoundingBox ==
    /\ ~probe.boxed
    /\ probe' = [probe EXCEPT !.boxed = TRUE,
                              !.bbox = get_bounding_box(probe.b)]
    /\ UNCHANGED <<placerVars, threads, annotations, page, gen, agent>>

NextCD == CheckCollision \/ GetBoundingBox

SpecCD == InitCD /\ [][NextCD]_vars

----------------------------------------------------------------------------
(* Concurrent workers: each runs place_symbols_randomly with its own locals; *)
(* the catalog and the generator of the random module are shared.  A worker *)
(* can be preempted between any two calls into the random module.           *)

WorkerCounts == 0..MaxWorkerCount
WorkerSeeds == 0..MaxWorkerSeed

InitWorkers ==
    /\ symbols \in Catalogs
    /\ rng = 0
    /\ pc = "idle"
    /\ args = NoArgs
    /\ sheet_width = 0
    /\ sheet_height = 0
    /\ placed_symbols = << >>
    /\ attempts = 0
    /\ result = << >>
    /\ error = None
    /\ warned = FALSE
    /\ kept = NoKept
    /\ probe = NoProbe
    /\ threads = NoThreads
    /\ annotations = NoAnnotations
    /\ page = NoPage
    /\ gen = NoGen
    /\ agent = NoAgent

sharedUnchanged == <<symbols, pc, args, sheet_width, sheet_height,
                     placed_symbols, attempts, result, error, warned, kept,
                     probe, annotations, page, gen, agent>>

\* lines 189-204 in worker t
WorkerCall(t, sheet_size, symbol_count, seed) ==
    /\ threads[t].pc = "idle"
    /\ rng' = Reseed(seed, rng)
    /\ LET size == get_size(sheet_size)
           a == [sheet_size |-> sheet_size, symbol_count |-> symbol_count,
                 seed |-> seed]
       IN  threads' = [threads EXCEPT ![t] =
              IF size.raised
              THEN [NoThread EXCEPT !.pc = "raised", !.args = a,
                                    !.error = size.error]
              ELSE [NoThread EXCEPT !.pc = "loop", !.args = a,
                                    !.sheet_width = size.size[1],
                                    !.sheet_height = size.size[2]]]
    /\ UNCHANGED sharedUnchanged

\* lines 206-211: loop test, attempts += 1, random.choice(symbol_names)
WorkerDrawSymbol(t) ==
    LET w == threads[t] IN
    /\ w.pc = "loop"
    /\ w.stage = "symbol"
    /\ LoopCondition(Len(w.placed_symbols), w.args.symbol_count, w.attempts)
    /\ IF symbols = << >>
       THEN /\ threads' = [threads EXCEPT ![t] =
                 [w EXCEPT !.pc = "raised", !.error = EmptyChoiceError,
                           !.attempts = w.attempts + 1]]
            /\ UNCHANGED rng
       ELSE /\ rng' = RngStep(rng)
            /\ threads' = [threads EXCEPT ![t] =
                 [w EXCEPT !.attempts = w.attempts + 1, !.stage = "x",
                           !.candidate.symbol = choice(symbols, RngStep(rng))]]
    /\ UNCHANGED sharedUnchanged

\* lines 214-216
WorkerDrawX(t) ==
    LET w == threads[t]
        symbol == w.candidate.symbol
    IN
    /\ w.pc = "loop"
    /\ w.stage = "x"
    /\ rng' = RngStep(rng)
    /\ threads' = [threads EXCEPT ![t] =
          [w EXCEPT !.stage = "y",
                    !.candidate.x =
                        uniform(margin + symbol.width_mm \div 2,
                                (w.sheet_width - margin) - symbol.width_mm \div 2,
                                RngStep(rng))]]
    /\ UNCHANGED sharedUnchanged

\* lines 217-219
WorkerDrawY(t) ==
    LET w == threads[t]
        symbol == w.candidate.symbol
    IN
    /\ w.pc = "loop"
    /\ w.stage = "y"
    /\ rng' = RngStep(rng)
    /\ threads' = [threads EXCEPT ![t] =
          [w EXCEPT !.stage = "rotation",
                    !.candidate.y =
                        uniform(margin + symbol.height_mm \div 2,
                                (w.sheet_height - margin) - symbol.height_mm \div 2,
                                RngStep(rng))]]
    /\ UNCHANGED sharedUnchanged

\* line 222, and the template lookup of generate_params (lines 130-131)
WorkerDrawRotation(t) ==
    LET w == threads[t] IN
    /\ w.pc = "loop"
    /\ w.stage = "rotation"
    /\ rng' = RngStep(rng)
    /\ threads' = [threads EXCEPT ![t] =
          [w EXCEPT !.stage = IF MatchedTemplate[w.candidate.symbol.name] = 0
                              THEN "check" ELSE "params",
                    !.k = 1,
                    !.candidate.rotation = choice(Rotations, RngStep(rng))]]
    /\ UNCHANGED sharedUnchanged

\* line 132: the k-th generator() call of the matched template
WorkerDrawParam(t) ==
    LET w == threads[t]
        template == Template(TemplateKeys[MatchedTemplate[w.candidate.symbol.name]])
        g == Generate(template[w.k], rng)
    IN
    /\ w.pc = "loop"
    /\ w.stage = "params"
    /\ rng' = g.rng
    /\ threads' = [threads EXCEPT ![t] =
          [w EXCEPT !.stage = IF w.k = Len(template) THEN "check" ELSE "params",
                    !.k = w.k + 1,
                    !.candidate.instance_params =
                        Append(w.candidate.instance_params,
                               <<template[w.k].key, g.value>>)]]
    /\ UNCHANGED sharedUnchanged

\* lines 236-245
WorkerCheck(t) ==
    LET w == threads[t] IN
    /\ w.pc = "loop"
    /\ w.stage = "check"
    /\ threads' = [threads EXCEPT ![t] =
          [w EXCEPT !.stage = "symbol", !.k = 0, !.candidate = NoCandidate,
                    !.placed_symbols =
                        IF CollisionFound(w.candidate, w.placed_symbols)
                        THEN w.placed_symbols
                        ELSE Append(w.placed_symbols, w.candidate)]]
    /\ UNCHANGED <<rng, sharedUnchanged>>

\* lines 247-252
WorkerReturn(t) ==
    LET w == threads[t] IN
    /\ w.pc = "loop"
    /\ w.stage = "symbol"
    /\ ~LoopCondition(Len(w.placed_symbols), w.args.symbol_count, w.attempts)
    /\ threads' = [threads EXCEPT ![t] =
          [w EXCEPT !.pc = "done", !.result = w.placed_symbols]]
    /\ UNCHANGED <<rng, sharedUnchanged>>

NextWorkers ==
    \E t \in Threads :
        \/ \E sheet_size \in SheetNames, symbol_count \in WorkerCounts,
              seed \in WorkerSeeds :
              WorkerCall(t, sheet_size, symbol_count, seed)
        \/ WorkerDrawSymbol(t)
        \/ WorkerDrawX(t)
        \/ WorkerDrawY(t)
        \/ WorkerDrawRotation(t)
        \/ WorkerDrawParam(t)
        \/ WorkerCheck(t)
        \/ WorkerReturn(t)

SpecWorkers == InitWorkers /\ [][NextWorkers]_vars

\* the list a run returns when no other run draws from the generator:
\* the loop of place_symbols_randomly from the state (placed, n_attempts, s)
RECURSIVE RunLoop(_, _, _, _, _, _)
RunLoop(syms, symbol_count, size, placed, n_attempts, s) ==
    IF ~LoopCondition(Len(placed), symbol_count, n_attempts)
    THEN placed
    ELSE LET c == CandidateOf[syms, s, size]
         IN  RunLoop(syms, symbol_count, size,
                     IF CollisionFound(c.placed_symbol, placed)
                     THEN placed
                     ELSE Append(placed, c.placed_symbol),
                     n_attempts + 1, c.rng)

RunAlone(syms, a) ==
    RunLoop(syms, a.symbol_count, get_size(a.sheet_size).size, << >>, 0,
            Reseed(a.seed, 0))

----------------------------------------------------------------------------
(* check_collision called in both argument orders, on operands whose boxes  *)
(* lie on the two sides of a power of two, where the spacing of the floats  *)
(* doubles                                                                   *)

FloatOffsets == 0..MaxFloatOffset
FloatSlack == (-3)..3

InitFP ==
    /\ symbols = MockSymbols
    /\ rng = 0
    /\ pc = "idle"
    /\ args = NoArgs
    /\ sheet_width = 0
    /\ sheet_height = 0
    /\ placed_symbols = << >>
    /\ attempts = 0
    /\ result = << >>
    /\ error = None
    /\ warned = FALSE
    /\ kept = NoKept
    /\ threads = NoThreads
    /\ annotations = NoAnnotations
    /\ page = NoPage
    /\ gen = NoGen
    /\ agent = NoAgent
    /\ \E sa \in TestSymbols, sb \in TestSymbols, off \in FloatOffsets,
          slack \in FloatSlack, min_spacing \in ProbeSpacings :
          LET ax == FloatLimit - sa.width_mm \div 2 - off
              bx == ax + sa.width_mm \div 2 + sb.width_mm \div 2
                       + min_spacing + slack
          IN  /\ fl(bx) = bx
              /\ probe = [NoProbe EXCEPT
                          !.a = PlacedSymbol(sa, ax, 100, 0, << >>),
                          !.b = PlacedSymbol(sb, bx, 100, 0, << >>),
                          !.min_spacing = min_spacing]

\* check_collision(a, b, min_spacing) and check_collision(b, a, min_spacing)
CheckBothOrders ==
    /\ ~probe.swapped_called
    /\ probe' = [probe EXCEPT
                 !.called = TRUE,
                 !.result = check_collision(probe.a, probe.b,
                                            probe.min_spacing),
                 !.swapped_called = TRUE,
                 !.swapped = check_collision(probe.b, probe.a,
                                             probe.min_spacing)]
    /\ UNCHANGED <<placerVars, threads, annotations, page, gen, agent>>

NextFP == CheckBothOrders

SpecFP == InitFP /\ [][NextFP]_vars

----------------------------------------------------------------------------
(* Direct calls of the class method SymbolParameterGenerator.generate_params *)

InitGP ==
    /\ symbols = MockSymbols
    /\ rng \in 0..(RandMax - 1)
    /\ pc = "idle"
    /\ args = NoArgs
    /\ sheet_width = 0
    /\ sheet_height = 0
    /\ placed_symbols = << >>
    /\ attempts = 0
    /\ result = << >>
    /\ error = None
    /\ warned = FALSE
    /\ kept = NoKept
    /\ probe = NoProbe
    /\ threads = NoThreads
    /\ annotations = NoAnnotations
    /\ page = NoPage
    /\ \E name \in SymbolNames \cup DirectNames :
          gen = [NoGen EXCEPT !.symbol_name = name]
    /\ agent = NoAgent

\* the call generate_params(symbol_name) on the name drawn; gen.rng keeps the
\* generator state the call started from
GenerateParams ==
    /\ ~gen.called
    /\ LET out == generate_params(gen.symbol_name, rng)
       IN  /\ rng' = out.rng
           /\ gen' = [gen EXCEPT !.called = TRUE, !.rng = rng,
                                 !.params = out.params]
    /\ UNCHANGED <<symbols, pc, args, sheet_width, sheet_height,
                   placed_symbols, attempts, result, error, warned, kept,
                   probe, threads, annotations, page, agent>>

NextGP == GenerateParams

SpecGP == InitGP /\ [][NextGP]_vars

----------------------------------------------------------------------------
(* LayoutLabAgent.generate_drawing, as the command-line generator calls it *)

\* random.randint(15, 35) (layoutlab_agent.py:51), the range scaled down to
\* the counts the model runs
MinSymbols == 1
MaxSymbols == MaxCount

randint(a, b, r) == a + (r * (b - a + 1)) \div RandMax

\* --sheet-size choices of the command line (generate.py:39)
CLISheets == {"A4", "A3", "Letter"}

\* the while loop run to its end: the accepted list and the generator state
RECURSIVE RunLoopState(_, _, _, _, _, _)
RunLoopState(syms, symbol_count, size, placed, n_attempts, s) ==
    IF ~LoopCondition(Len(placed), symbol_count, n_attempts)
    THEN [placed_symbols |-> placed, rng |-> s]
    ELSE LET c == CandidateOf[syms, s, size]
         IN  RunLoopState(syms, symbol_count, size,
                          IF CollisionFound(c.placed_symbol, placed)
                          THEN placed
                          ELSE Append(placed, c.placed_symbol),
                          n_attempts + 1, c.rng)

\* place_symbols_randomly on a non-empty catalog and a supported sheet,
\* tabulated over the arguments generate_drawing can pass
DrawingRun ==
    [syms \in Catalogs \ {<< >>}, size \in {SIZES[k] : k \in DOMAIN SIZES},
     symbol_count \in MinSymbols..MaxSymbols, seed \in Seeds |->
        RunLoopState(syms, symbol_count, size, << >>, 0, Reseed(seed, 0))]

\* the interpreter starts with a generator seeded from the system and a str
\* hash salted per process; generate.py builds the agent from --sheet-size
InitAgent ==
    /\ symbols \in Catalogs
    /\ rng \in 0..(RandMax - 1)
    /\ pc = "idle"
    /\ args = NoArgs
    /\ sheet_width = 0
    /\ sheet_height = 0
    /\ placed_symbols = << >>
    /\ attempts = 0
    /\ result = << >>
    /\ error = None
    /\ warned = FALSE
    /\ kept = NoKept
    /\ probe = NoProbe
    /\ threads = NoThreads
    /\ annotations = NoAnnotations
    /\ page = NoPage
    /\ gen = NoGen
    /\ \E sheet_size \in CLISheets, h \in [PageIds -> Seeds] :
          agent = [NoAgent EXCEPT !.sheet_size = sheet_size, !.hash = h]

\* generate_drawing(page_id, output_dir) (layoutlab_agent.py:31-84); the
\* caller may hold on to the dictionary the previous call returned
GenerateDrawing(page_id, keep) ==
    /\ agent.calls < MaxDrawings
    /\ keep => (agent.calls > 0 /\ ~agent.drawing.raised /\ ~agent.kept.valid)
    /\ LET r1 == RngStep(rng)
           symbol_count == randint(MinSymbols, MaxSymbols, r1)
           seed == agent.hash[page_id]
           size == get_size(agent.sheet_size)
           held == IF keep
                   THEN [valid |-> TRUE, page_id |-> agent.page_id,
                         drawing |-> agent.drawing]
                   ELSE agent.kept
       IN  IF size.raised \/ symbols = << >>
           THEN /\ rng' = Reseed(seed, r1)
                /\ agent' = [agent EXCEPT
                      !.calls = @ + 1,
                      !.page_id = page_id,
                      !.kept = held,
                      !.drawing = [NoDrawing EXCEPT
                          !.raised = TRUE,
                          !.error = IF size.raised THEN size.error
                                                   ELSE EmptyChoiceError]]
           ELSE LET run == DrawingRun[symbols, size.size, symbol_count, seed]
                    placed == run.placed_symbols
                IN  /\ rng' = run.rng
                    /\ agent' = [agent EXCEPT
                          !.calls = @ + 1,
                          !.page_id = page_id,
                          !.kept = held,
                          !.drawing = [raised |-> FALSE, error |-> None,
                              symbols |-> [i \in 1..Len(placed) |->
                                             placed[i].symbol.name],
                              symbol_count |-> Len(placed),
                              annotations |->
                                  generate_annotations_json(placed).annotations]]
    /\ UNCHANGED <<symbols, pc, args, sheet_width, sheet_height,
                   placed_symbols, attempts, result, error, warned, kept,
                   probe, threads, annotations, page, gen>>

NextAgent ==
    \E page_id \in PageIds, keep \in BOOLEAN : GenerateDrawing(page_id, keep)

SpecAgent == InitAgent /\ [][NextAgent]_vars

----------------------------------------------------------------------------
(* The module-level API function generate_page *)

UnboundLocalError == "UnboundLocalError"
BaseDrawings == {None, "part.dxf"}

InitPage ==
    /\ symbols \in Catalogs
    /\ rng = 0
    /\ pc = "idle"
    /\ args = NoArgs
    /\ sheet_width = 0
    /\ sheet_height = 0
    /\ placed_symbols = << >>
    /\ attempts = 0
    /\ result = << >>
    /\ error = None
    /\ warned = FALSE
    /\ kept = NoKept
    /\ probe = NoProbe
    /\ threads = NoThreads
    /\ annotations = NoAnnotations
    /\ page = NoPage
    /\ gen = NoGen
    /\ agent = NoAgent

\* generate_page (lines 378-421).  The body assigns the name canvas (line
\* 398), so canvas is a local of the function for the whole body and the
\* module reportlab.pdfgen.canvas is hidden; the right-hand side of line 398
\* reads that local before it is bound, and the call leaves with
\* UnboundLocalError.  Lines 401-421 (base drawing, placement, save,
\* annotations, return) are not reached, and random.seed is never called.
GeneratePage(sheet_size, symbol_count, seed, base_drawing) ==
    /\ page.pc = "idle"
    /\ page' = [pc |-> "raised",
                args |-> [sheet_size |-> sheet_size,
                          symbol_count |-> symbol_count, seed |-> seed,
                          base_drawing |-> base_drawing],
                error |-> UnboundLocalError,
                pdf_bytes |-> FALSE,
                annotations |-> << >>]
    /\ UNCHANGED <<placerVars, probe, threads, annotations, gen, agent>>

NextPage ==
    \E sheet_size \in SheetNames, symbol_count \in Counts, seed \in Seeds,
       base_drawing \in BaseDrawings :
       GeneratePage(sheet_size, symbol_count, seed, base_drawing)

SpecPage == InitPage /\ [][NextPage]_vars

----------------------------------------------------------------------------
(* Properties *)

Called == pc # "idle"
SheetSupported == args.sheet_size \in {"A4", "A3", "US-Letter"}

InsideUsable(p) ==
    LET bbox == get_bounding_box(p)
    IN  /\ bbox.x_min >= margin
        /\ bbox.y_min >= margin
        /\ bbox.x_max <= sheet_width - margin
        /\ bbox.y_max <= sheet_height - margin

C2_AllInsideUsable ==
    pc = "done" => \A i \in 1..Len(result) : InsideUsable(result[i])

\* C3: a call with the same catalog, sheet, count and seed as an earlier call
\* returns the same sequence, whatever calls were made in between.
C3_SameArgsSameResult ==
    (pc = "done" /\ kept.valid /\ kept.args = args) => result = kept.result

\* a repeated call that returned two symbols, one of them with parameters
C3_Witness ==
    /\ pc = "done"
    /\ kept.valid
    /\ kept.args = args
    /\ Len(result) >= 2
    /\ \E i \in 1..Len(result) : result[i].instance_params # << >>

\* C4 (as claimed): in every state of a run and in the returned list, the
\* number of accepted symbols is at most the requested count.
C4_AtMostRequested ==
    pc \in {"loop", "done"} =>
        /\ Len(placed_symbols) <= args.symbol_count
        /\ Len(result) <= args.symbol_count

\* C4 (amended): the number of accepted symbols is at most the requested
\* count when that count is >= 0, and is zero when the count is negative.
C4_AtMostRequestedOrZero ==
    pc \in {"loop", "done"} =>
        IF args.symbol_count >= 0
        THEN /\ Len(placed_symbols) <= args.symbol_count
             /\ Len(result) <= args.symbol_count
        ELSE /\ placed_symbols = << >>
             /\ result = << >>

\* a run that returned exactly the requested number, after a rejection
C4_Witness ==
    /\ pc = "done"
    /\ args.symbol_count >= 2
    /\ Len(result) = args.symbol_count
    /\ attempts > args.symbol_count

XGap(a, b) ==
    LET A == get_bounding_box(a)
        B == get_bounding_box(b)
    IN  IF A.x_max <= B.x_min THEN B.x_min - A.x_max
        ELSE IF B.x_max <= A.x_min THEN A.x_min - B.x_max
        ELSE -1

YGap(a, b) ==
    LET A == get_bounding_box(a)
        B == get_bounding_box(b)
    IN  IF A.y_max <= B.y_min THEN B.y_min - A.y_max
        ELSE IF B.y_max <= A.y_min THEN A.y_min - B.y_max
        ELSE -1

\* the boxes share boundary points and their interiors are disjoint
Touching(a, b) ==
    \/ XGap(a, b) = 0 /\ YGap(a, b) <= 0
    \/ YGap(a, b) = 0 /\ XGap(a, b) <= 0

\* C5 (as claimed): with min_spacing = 0, two boxes that only share a
\* boundary are reported as not colliding.
C5_TouchingDoesNotCollide ==
    (probe.called /\ probe.min_spacing = 0 /\ Touching(probe.a, probe.b))
        => ~probe.result

\* C6: check_collision(a, b, s) is true exactly when the box of a expanded by
\* s on all four sides and the unexpanded box of b are not separated on any
\* axis; a pair with a positive gap below s collides with s and not with 0.
C6_ExpandedOverlap ==
    probe.called =>
        LET A == get_bounding_box(probe.a)
            B == get_bounding_box(probe.b)
            s == probe.min_spacing
            E == [x_min |-> A.x_min - s, y_min |-> A.y_min - s,
                  x_max |-> A.x_max + s, y_max |-> A.y_max + s]
        IN  /\ probe.result =
                 ~ (E.x_max < B.x_min \/ B.x_max < E.x_min
                    \/ E.y_max < B.y_min \/ B.y_max < E.y_min)
            /\ (XGap(probe.a, probe.b) > 0 /\ YGap(probe.a, probe.b) < 0) =>
                 /\ (XGap(probe.a, probe.b) < s) => probe.result
                 /\ (s = 0) => ~probe.result

\* the test's case: a 1 mm gap on x, checked with 2 mm spacing, collides
C6_Witness ==
    /\ probe.called
    /\ probe.min_spacing = 20
    /\ XGap(probe.a, probe.b) = 10
    /\ YGap(probe.a, probe.b) < 0
    /\ probe.result

\* C7 (as claimed): with an empty catalog and requested_count > 0 the call
\* returns an empty list without raising.
C7_EmptyCatalogReturnsEmpty ==
    (symbols = << >> /\ SheetSupported /\ args.symbol_count > 0
       /\ pc \in {"done", "raised"})
        => (pc = "done" /\ error = None /\ result = << >>)

\* C8: for requested_count <= 0 and a supported sheet the call returns an
\* empty list, for every seed and catalog, without a placement attempt.
C8_NonPositiveCountReturnsEmpty ==
    (Called /\ SheetSupported /\ args.symbol_count <= 0) =>
        /\ pc \in {"loop", "done"}
        /\ error = None
        /\ attempts = 0
        /\ placed_symbols = << >>
        /\ result = << >>

\* a returned call with a non-positive count on an empty catalog
C8_Witness ==
    /\ pc = "done"
    /\ SheetSupported
    /\ args.symbol_count <= 0
    /\ args.seed > 0
    /\ symbols = << >>

\* C9: get_size gives 210x297 for A4, 297x420 for A3, 215.9x279.4 for
\* US-Letter; any other name raises the unsupported-sheet-size ValueError,
\* which leaves place_symbols_randomly without any placement.
C9_SheetSizes ==
    Called =>
        CASE args.sheet_size = "A4" ->
               error # UnsupportedSheetError
               /\ <<sheet_width, sheet_height>> = <<2100, 2970>>
          [] args.sheet_size = "A3" ->
               error # UnsupportedSheetError
               /\ <<sheet_width, sheet_height>> = <<2970, 4200>>
          [] args.sheet_size = "US-Letter" ->
               error # UnsupportedSheetError
               /\ <<sheet_width, sheet_height>> = <<2159, 2794>>
          [] OTHER ->
               /\ pc = "raised"
               /\ error = UnsupportedSheetError
               /\ attempts = 0
               /\ placed_symbols = << >>
               /\ result = << >>

\* an unsupported sheet requested after a call that had returned symbols
C9_Witness ==
    /\ pc = "raised"
    /\ args.sheet_size = "B5"
    /\ error = UnsupportedSheetError
    /\ kept.valid
    /\ kept.result # << >>

\* C10 (as claimed): with a supported sheet and a non-empty catalog the
\* attempts counter never exceeds 10 x requested_count, and a returned run
\* has len(result) = requested_count or attempts = 10 x requested_count.
C10_BudgetAsClaimed ==
    (pc \in {"loop", "done"} /\ symbols # << >>) =>
        /\ attempts <= 10 * args.symbol_count
        /\ pc = "done" =>
              \/ Len(result) = args.symbol_count
              \/ attempts = 10 * args.symbol_count

\* C10 (amended): with a supported sheet and a non-empty catalog every run
\* eventually returns a list and never raises; when requested_count >= 0 the
\* attempts counter never exceeds 10 x requested_count and a returned run has
\* len(result) = requested_count or attempts = 10 x requested_count; when
\* requested_count < 0 the run returns the empty list with attempts = 0.
C10_TerminatesWithinBudget ==
    /\ [](( pc \in {"loop", "done"} /\ symbols # << >>) =>
            /\ error = None
            /\ args.symbol_count >= 0 =>
                  /\ attempts <= 10 * args.symbol_count
                  /\ pc = "done" =>
                        \/ Len(result) = args.symbol_count
                        \/ attempts = 10 * args.symbol_count
            /\ args.symbol_count < 0 =>
                  /\ attempts = 0
                  /\ result = << >>)
    /\ (pc = "loop" /\ symbols # << >>) ~> (pc = "done")

\* a run that used up its whole budget and returned a shortfall
C10_Witness ==
    /\ pc = "done"
    /\ symbols # << >>
    /\ args.symbol_count >= 2
    /\ attempts = 10 * args.symbol_count
    /\ Len(result) < args.symbol_count
    /\ warned

\* C11 (as claimed): a catalog symbol whose width or height is <= 0 never
\* appears in a returned list (and drawing it does not raise).
C11_DegenerateNeverReturned ==
    /\ pc = "done" =>
          \A i \in 1..Len(result) :
              result[i].symbol.width_mm > 0 /\ result[i].symbol.height_mm > 0
    /\ (pc = "raised" /\ symbols # << >>) => error = UnsupportedSheetError

Fits(symbol) ==
    /\ symbol.width_mm <= sheet_width - 2 * margin
    /\ symbol.height_mm <= sheet_height - 2 * margin

\* C12 (as claimed): no instance of a catalog symbol wider or taller than the
\* usable region is ever returned, and every returned symbol lies inside the
\* usable region.
C12_OversizedNeverReturned ==
    pc = "done" =>
        \A i \in 1..Len(result) :
            Fits(result[i].symbol) /\ InsideUsable(result[i])

\* C13 (as claimed): a placement run whose draws are interleaved with those
\* of another run returns the list the same (catalog, sheet, count, seed)
\* run returns when executed alone.
C13_ConcurrentRunsIndependent ==
    \A t \in Threads :
        (threads[t].pc = "done" /\ symbols # << >>) =>
            threads[t].result = RunAlone(symbols, threads[t].args)

\* a run executed alone returns RunAlone
SequentialRunIsRunAlone ==
    (pc = "done" /\ symbols # << >>) => result = RunAlone(symbols, args)

\* C14: with requested_count >= 1 and a non-empty catalog the first candidate
\* drawn is accepted, so the result is non-empty; catalog {A: 8x8 mm} on A4
\* with requested_count = 1 gives exactly one PlacedSymbol of A, in one
\* attempt, with 14 <= x <= 196 and 14 <= y <= 283.
C14_FirstCandidateAccepted ==
    /\ (pc \in {"loop", "done"} /\ attempts >= 1) => Len(placed_symbols) >= 1
    /\ (pc = "done" /\ args.symbol_count >= 1) => Len(result) >= 1
    /\ (pc = "done" /\ symbols = << Symbol("A", 80, 80) >>
          /\ args.sheet_size = "A4" /\ args.symbol_count = 1) =>
          /\ Len(result) = 1
          /\ attempts = 1
          /\ result[1].symbol.name = "A"
          /\ 140 <= result[1].x /\ result[1].x <= 1960
          /\ 140 <= result[1].y /\ result[1].y <= 2830

\* the concrete scenario: one A returned on A4 for requested_count = 1
C14_Witness ==
    /\ pc = "done"
    /\ symbols = << Symbol("A", 80, 80) >>
    /\ args.sheet_size = "A4"
    /\ args.symbol_count = 1
    /\ Len(result) = 1
    /\ attempts = 1

\* the number of boxes of one extent that fit side by side along one axis of
\* the usable region with more than MinSpacing between neighbours
AxisCapacity(extent, usable) ==
    IF extent > usable THEN 0
    ELSE (usable + MinSpacing + 1) \div (extent + MinSpacing + 1)

\* the number of boxes of one symbol that can coexist in the usable region
\* without colliding (translates of one rectangle: the grid is optimal)
Capacity(symbol) ==
    AxisCapacity(symbol.width_mm, sheet_width - 2 * margin)
        * AxisCapacity(symbol.height_mm, sheet_height - 2 * margin)

\* C15 (as claimed): when requested_count exceeds the number of boxes that
\* can coexist in the usable region with the 2 mm spacing, the returned list
\* is strictly shorter than requested_count and has no colliding pair.
C15_ShortfallBeyondCapacity ==
    (pc = "done" /\ Len(symbols) = 1
       /\ args.symbol_count > Capacity(symbols[1])) =>
        /\ Len(result) < args.symbol_count
        /\ \A i, j \in 1..Len(result) :
               i # j => ~check_collision(result[i], result[j], MinSpacing)

\* the same for one-symbol catalogs whose symbol fits the usable region
ShortfallBeyondCapacityWhenFitting ==
    (pc = "done" /\ Len(symbols) = 1 /\ Fits(symbols[1])
       /\ args.symbol_count > Capacity(symbols[1])) =>
        Len(result) < args.symbol_count

BeyondCapacityReached ==
    /\ pc = "done" /\ Len(symbols) = 1 /\ Fits(symbols[1])
    /\ Capacity(symbols[1]) = 2
    /\ args.symbol_count > Capacity(symbols[1])
    /\ Len(result) = 2

\* C16: generate_annotations_json maps a list of n PlacedSymbols to exactly n
\* records in the same order; record i has id i (the ordinals 0..n-1), the
\* symbol name, position, rotation and instance parameters of input i and
\* the bounding box get_bounding_box(input i); the input list is left as it
\* was.
C16_AnnotationsMirrorInput ==
    annotations.called =>
        LET input == annotations.input
            records == annotations.records
        IN  /\ result = input
            /\ Len(records) = Len(input)
            /\ {records[k].id : k \in 1..Len(records)} = 0..(Len(input) - 1)
            /\ \A k \in 1..Len(input) :
                  /\ records[k].id = k - 1
                  /\ records[k].symbol_name = input[k].symbol.name
                  /\ records[k].position.x = input[k].x
                  /\ records[k].position.y = input[k].y
                  /\ records[k].rotation = input[k].rotation
                  /\ records[k].parameters = input[k].instance_params
                  /\ records[k].bounding_box = get_bounding_box(input[k])

C16_Witness ==
    /\ annotations.called
    /\ Len(annotations.records) = 3
    /\ annotations.records[3].id = 2
    /\ annotations.records[1].symbol_name # annotations.records[2].symbol_name

\* the arguments generate_page passes on to place_symbols_randomly (line 407)
PlacementArgs == [sheet_size |-> page.args.sheet_size,
                  symbol_count |-> page.args.symbol_count,
                  seed |-> page.args.seed]

\* C17 (as claimed): for each supported sheet size, any requested count >= 1
\* and any seed, generate_page completes without error and returns pdf_bytes
\* and annotations, the non-empty record list of the placement computed for
\* that (sheet, count, seed).
C17_GeneratePageReturns ==
    (/\ page.pc # "idle"
     /\ page.args.sheet_size \in SupportedSheets
     /\ page.args.symbol_count >= 1) =>
        /\ page.pc = "returned"
        /\ page.error = None
        /\ page.pdf_bytes
        /\ page.annotations # << >>
        /\ page.annotations =
              generate_annotations_json(
                  RunAlone(symbols, PlacementArgs)).annotations

\* C18: get_bounding_box(p) is (p.x - w/2, p.y - h/2, p.x + w/2, p.y + h/2)
\* for the nominal width w and height h of the symbol, and is the same for
\* every value of p.rotation.
C18_BoundingBoxIgnoresRotation ==
    probe.boxed =>
        LET p == probe.b
            w == p.symbol.width_mm
            h == p.symbol.height_mm
        IN  /\ 2 * probe.bbox.x_min = 2 * p.x - w
            /\ 2 * probe.bbox.y_min = 2 * p.y - h
            /\ 2 * probe.bbox.x_max = 2 * p.x + w
            /\ 2 * probe.bbox.y_max = 2 * p.y + h
            /\ \A i \in DOMAIN Rotations :
                  get_bounding_box([p EXCEPT !.rotation = Rotations[i]])
                      = probe.bbox

C18_Witness ==
    /\ probe.boxed
    /\ probe.b.rotation = 90
    /\ probe.b.symbol.width_mm = 100 /\ probe.b.symbol.height_mm = 80
    /\ probe.b.x = 200 /\ probe.b.y = 150
    /\ probe.bbox = [x_min |-> 150, y_min |-> 110, x_max |-> 250, y_max |-> 190]

Max(a, b) == IF a >= b THEN a ELSE b

\* the non-negative axis gaps between the bounding boxes of a and b
BoxDx(a, b) ==
    LET A == get_bounding_box(a)
        B == get_bounding_box(b)
    IN  Max(0, Max(A.x_min - B.x_max, B.x_min - A.x_max))

BoxDy(a, b) ==
    LET A == get_bounding_box(a)
        B == get_bounding_box(b)
    IN  Max(0, Max(A.y_min - B.y_max, B.y_min - A.y_max))

\* C19: for every pair of distinct symbols in one placement result the
\* distance sqrt(dx^2 + dy^2) between their bounding boxes, dx and dy being
\* the non-negative axis gaps, is at least the 2.0 mm minimum spacing.
C19_MinimumSpacingKept ==
    pc = "done" =>
        \A i, j \in 1..Len(result) :
            i # j =>
                BoxDx(result[i], result[j]) * BoxDx(result[i], result[j])
                  + BoxDy(result[i], result[j]) * BoxDy(result[i], result[j])
                    >= MinSpacing * MinSpacing

\* a result in which some pair is separated along one axis only
C19_Witness ==
    /\ pc = "done"
    /\ Len(result) = 3
    /\ \E i, j \in 1..Len(result) :
          /\ i # j
          /\ BoxDy(result[i], result[j]) = 0
          /\ BoxDx(result[i], result[j]) > MinSpacing

\* C20: every PlacedSymbol returned by place_symbols_randomly, and every
\* annotation record built from it, has a rotation in {0, 90, 180, 270}.
C20_RotationsAreRightAngles ==
    /\ pc = "done" =>
          \A i \in 1..Len(result) : result[i].rotation \in {0, 90, 180, 270}
    /\ annotations.called =>
          \A k \in 1..Len(annotations.records) :
              annotations.records[k].rotation \in {0, 90, 180, 270}

C20_Witness ==
    /\ pc = "done"
    /\ annotations.called
    /\ Len(annotations.records) = 2
    /\ result[1].rotation = 270
    /\ annotations.records[2].rotation = 90

\* C21: in every loop iteration, accepted or rejected, the draws are made in
\* the order symbol, x, y, rotation, instance parameters from the one
\* generator, all before the collision test: the generator state after the
\* iteration is the one left by the five draws whether or not the candidate
\* was appended, and an appended candidate is built from those draws.
C21_DrawsInFixedOrder ==
    [][(pc = "loop" /\ attempts' = attempts + 1 /\ symbols # << >>) =>
        LET r1 == RngStep(rng)
            symbol == choice(symbols, r1)
            r2 == RngStep(r1)
            x == uniform(margin + symbol.width_mm \div 2,
                         (sheet_width - margin) - symbol.width_mm \div 2, r2)
            r3 == RngStep(r2)
            y == uniform(margin + symbol.height_mm \div 2,
                         (sheet_height - margin) - symbol.height_mm \div 2, r3)
            r4 == RngStep(r3)
            rotation == choice(Rotations, r4)
            gp == generate_params(symbol.name, r4)
        IN  /\ rng' = gp.rng
            /\ placed_symbols' # placed_symbols =>
                  placed_symbols' =
                      Append(placed_symbols,
                             PlacedSymbol(symbol, x, y, rotation, gp.params))
    ]_vars

\* a run over a catalog whose only symbol has parameters, with an accepted
\* and a rejected attempt behind it
C21_Witness ==
    /\ pc \in {"loop", "done"}
    /\ symbols = << Symbol("Diameter_Table", 900, 1300) >>
    /\ Len(placed_symbols) >= 1
    /\ attempts > Len(placed_symbols)

\* C22: in each loop iteration the candidate is appended to the accepted
\* list if and only if check_collision(candidate, e) with spacing 2.0 is
\* false for every already-accepted symbol e; otherwise the list is left as
\* it was.
C22_AppendedIffNoCollision ==
    [][(pc = "loop" /\ attempts' = attempts + 1 /\ symbols # << >>) =>
        LET candidate ==
                Candidate(symbols, rng, sheet_width, sheet_height).placed_symbol
            free == \A i \in 1..Len(placed_symbols) :
                        ~check_collision(candidate, placed_symbols[i],
                                         MinSpacing)
        IN  /\ free => placed_symbols' = Append(placed_symbols, candidate)
            /\ ~free => placed_symbols' = placed_symbols
    ]_vars

\* a run with three accepted symbols and at least one rejected candidate
C22_Witness ==
    /\ pc \in {"loop", "done"}
    /\ Len(placed_symbols) = 3
    /\ attempts > 3

IsPrefix(s, t) ==
    /\ Len(s) <= Len(t)
    /\ \A i \in 1..Len(s) : s[i] = t[i]

\* C23: during a run the accepted list only grows by appending: every step
\* of the run leaves the accepted symbols and their indices as they were and
\* adds at most one symbol at the end, a rejected attempt leaves the list
\* unchanged, and the list returned is the accepted list, so every
\* intermediate accepted list is a prefix of the returned list.
C23_AcceptedListOnlyGrows ==
    [][pc = "loop" =>
        /\ IsPrefix(placed_symbols, placed_symbols')
        /\ Len(placed_symbols') <= Len(placed_symbols) + 1
        /\ pc' = "done" => result' = placed_symbols
        /\ (attempts' = attempts + 1 /\ symbols # << >>
              /\ CollisionFound(Candidate(symbols, rng, sheet_width,
                                          sheet_height).placed_symbol,
                                placed_symbols))
             => placed_symbols' = placed_symbols
    ]_vars

\* a returned list of three symbols built with a rejected attempt in between
C23_Witness ==
    /\ pc = "done"
    /\ Len(result) = 3
    /\ attempts > 3
    /\ result = placed_symbols

\* the value lies in the range or choice set the generator g declares
InDeclared(g, v) ==
    CASE g.kind = "uniform" -> g.lo <= v /\ v <= g.hi
      [] g.kind = "choice" -> \E i \in 1..Len(g.values) : g.values[i] = v
      [] g.kind = "plusminus" ->
           /\ g.lo <= v[2] /\ v[2] <= g.hi
           /\ g.lo <= v[4] /\ v[4] <= g.hi

\* C24: generate_params(name) returns the parameters of the first template,
\* in the table order gdt_flatness, surface_finish, thread_callout, diameter,
\* whose key is a substring of the lower-cased name, one value per declared
\* parameter from its declared range or choice set; it returns the empty
\* parameter set and makes no random draw when no key is a substring.
C24_FirstMatchingTemplate ==
    gen.called =>
        LET name == lower(Chars(gen.symbol_name))
            M == {k \in 1..Len(TemplateKeys) :
                    IsSubstring(Chars(TemplateKeys[k]), name)}
        IN  /\ TemplateKeys = <<"gdt_flatness", "surface_finish",
                                "thread_callout", "diameter">>
            /\ M = {} => (gen.params = << >> /\ rng = gen.rng)
            /\ M # {} =>
                  LET m == CHOOSE k \in M : \A j \in M : k <= j
                      t == Template(TemplateKeys[m])
                  IN  /\ Len(gen.params) = Len(t)
                      /\ \A j \in 1..Len(t) :
                            /\ gen.params[j][1] = t[j].key
                            /\ InDeclared(t[j], gen.params[j][2])

\* a name that holds two template keys, the later one of the table first
C24_Witness ==
    /\ gen.called
    /\ gen.symbol_name = "diameter_surface_finish"
    /\ Len(gen.params) = 2
    /\ gen.params[1][1] = "roughness"
    /\ gen.params[2][1] = "process"

\* a name without any template key
NoTemplateReached ==
    gen.called /\ gen.symbol_name = "weld_symbol" /\ gen.params = << >>

\* C25 (as claimed): for every PlacedSymbol returned, each key of its
\* instance parameters is a parameter declared in the parameter schema of
\* the owning Symbol (Symbol.params) and its value lies within that
\* parameter's declared range or choices.
C25_InstanceParamsFollowSchema ==
    pc = "done" =>
        \A i \in 1..Len(result) :
            LET schema == result[i].symbol.params
                instance_params == result[i].instance_params
            IN  \A j \in 1..Len(instance_params) :
                    \E k \in 1..Len(schema) :
                        /\ schema[k].key = instance_params[j][1]
                        /\ InDeclared(schema[k], instance_params[j][2])

\* C26 (as claimed): check_collision is symmetric in its two symbols: for
\* all placed symbols a, b and every min_spacing >= 0,
\* check_collision(a, b, min_spacing) = check_collision(b, a, min_spacing).
C26_CollisionSymmetric ==
    probe.swapped_called => probe.result = probe.swapped

\* every sum the two calls form above the power of two is exact
AllExact ==
    LET A == get_bounding_box(probe.a)
        B == get_bounding_box(probe.b)
    IN  \A v \in {A.x_max + probe.min_spacing, B.x_max + probe.min_spacing,
                  probe.b.x + probe.b.symbol.width_mm \div 2} :
            fl(v) = v

\* the two argument orders agree wherever no result is rounded
SymmetricWhereExact ==
    (probe.swapped_called /\ AllExact) => probe.result = probe.swapped

SymmetricWhereExactReached ==
    /\ probe.swapped_called /\ AllExact
    /\ probe.result /\ probe.min_spacing = 20

\* C27: for the same catalog, sheet and seed and requested counts n <= m,
\* the list returned for n is a prefix of the list returned for m.
C27_SmallerCountIsPrefix ==
    (/\ pc = "done" /\ kept.valid
     /\ kept.args.sheet_size = args.sheet_size
     /\ kept.args.seed = args.seed) =>
        /\ kept.args.symbol_count <= args.symbol_count
              => IsPrefix(kept.result, result)
        /\ args.symbol_count <= kept.args.symbol_count
              => IsPrefix(result, kept.result)

\* an earlier run for one symbol and a later run for three, same sheet and
\* seed, the later one with a rejected attempt
C27_Witness ==
    /\ pc = "done" /\ kept.valid
    /\ kept.args.sheet_size = args.sheet_size
    /\ kept.args.seed = args.seed
    /\ kept.args.symbol_count = 1 /\ args.symbol_count = 3
    /\ Len(kept.result) = 1 /\ Len(result) = 3
    /\ attempts > 3

\* C28 (as claimed): a place_symbols_randomly call that fails with an
\* unsupported sheet size has no side effect: the state of the process-wide
\* random generator, the catalog and every other state are the same after
\* the failed call as before it.
C28_FailedCallHasNoEffect ==
    [][(pc # "loop" /\ pc' = "raised" /\ error' = UnsupportedSheetError) =>
        /\ rng' = rng
        /\ symbols' = symbols
        /\ UNCHANGED <<probe, threads, page, gen, agent>>
    ]_vars

\* the catalog and the state outside the call are left alone by a failed call
FailedCallKeepsCatalog ==
    [][(pc # "loop" /\ pc' = "raised" /\ error' = UnsupportedSheetError) =>
        /\ symbols' = symbols
        /\ UNCHANGED <<probe, threads, page, gen, agent>>
    ]_vars

\* C29 (as claimed): two calls of generate_drawing with the same page_id and
\* sheet size in one process return the same symbols, symbol_count and
\* annotations, whatever drawings were generated before each call.
C29_SamePageSameDrawing ==
    (/\ agent.kept.valid
     /\ agent.kept.page_id = agent.page_id
     /\ ~agent.drawing.raised) =>
        /\ agent.drawing.symbols = agent.kept.drawing.symbols
        /\ agent.drawing.symbol_count = agent.kept.drawing.symbol_count
        /\ agent.drawing.annotations = agent.kept.drawing.annotations

\* C30 (as claimed): every --sheet-size value the command-line generator
\* accepts is a sheet name supported by SheetDimensions, so page generation
\* started from the command line never fails with the unsupported-sheet-size
\* error.
C30_CLISheetsSupported ==
    (agent.calls > 0 /\ agent.sheet_size \in CLISheets) =>
        /\ agent.sheet_size \in SupportedSheets
        /\ ~(agent.drawing.raised
             /\ agent.drawing.error = UnsupportedSheetError)

\* the sheet names the command line shares with SheetDimensions work
SharedSheetsNeverUnsupported ==
    (agent.calls > 0 /\ agent.sheet_size \in CLISheets \cap SupportedSheets) =>
        ~(agent.drawing.raised /\ agent.drawing.error = UnsupportedSheetError)

====
